---- MODULE Spec2Model ----
(***************************************************************************)
(* Model of mcp_agent/server/response_aggregator.py:                       *)
(*   ChainResponseAggregator (add_agent_response, should_send_response,    *)
(*   get_aggregated_response), SSEEventType and send_sse_event,            *)
(* and of mcp_agent/llm/providers/augmented_llm_azure.py:                  *)
(*   AzureOpenAIAugmentedLLM._apply_prompt_provider_specific.              *)
(*                                                                         *)
(* Python objects are modelled by reference: the dict created in __init__  *)
(* lives in `heap`, and the field agent_responses holds its address.       *)
(* History variables (constructed, recordLog, consumeLog, notifyLog, last)  *)
(* observe the calls made and the values returned; the program never reads *)
(* them.                                                                   *)
(***************************************************************************)
EXTENDS Integers, Sequences, FiniteSets, TLC

\* ------------------------------------------------------------------ bounds
MaxTotal == 3
MaxRecords == 3
MaxConsumes == 2
MaxCallers == 2
MaxConcRecords == 2
MaxNotify == 2

AgentIds == {"a1", "a2", "a3"}
Responses == {"one", "two"}
ChainNames == {"chain", "other"}
TotalAgentsValues == -1..MaxTotal
Callers == 1..MaxCallers
None == "None"

VARIABLES
    \* fields of ChainResponseAggregator
    chain_name, total_agents, agent_responses, completed_agents, response_sent,
    \* the objects agent_responses and returned results refer to
    heap,
    \* history: record calls, consume executions, last call and its return value
    constructed, recordLog, consumeLog, last,
    \* callers that check and consume as separate steps
    lock, pc, ready, result,
    \* sinks and the notifier
    sent, attempts, notifyLog, outcome,
    \* the chain orchestrator: recordings it has not yet followed by a check
    pending,
    \* the Azure provider: self.history, the call observed, its result and outcome
    azHistory, azCall, azResult, azOutcome

aggVars == <<chain_name, total_agents, agent_responses, completed_agents, response_sent, heap>>
histVars == <<constructed, recordLog, consumeLog, last>>
callerVars == <<lock, pc, ready, result>>
sinkVars == <<sent, attempts, notifyLog, outcome>>
chainVars == <<pending>>
azureVars == <<azHistory, azCall, azResult, azOutcome>>
vars == <<aggVars, histVars, callerVars, sinkVars, chainVars, azureVars>>

\* ------------------------------------------------------------- dictionaries
EmptyDict == [a \in {} |-> "one"]

\* Variant: a key already present keeps its value (setdefault)
DictSet_keepfirst(d, k, v) ==
    [a \in (DOMAIN d) \cup {k} |-> IF a \in DOMAIN d THEN d[a] ELSE v]

\* d[k] = v on a Python dict: inserts the key or overwrites its value
DictSet(d, k, v) == [a \in (DOMAIN d) \cup {k} |-> IF a = k THEN v ELSE d[a]]

\* The dict a reference points to
Deref(ref) == heap[ref]

\* --------------------------------------------------- ChainResponseAggregator
\* ChainResponseAggregator.__init__(chain_name, total_agents)
init(name, total) ==
    /\ chain_name = name
    /\ total_agents = total
    /\ heap = <<EmptyDict>>
    /\ agent_responses = 1
    /\ completed_agents = 0
    /\ response_sent = FALSE

\* Variant: a recording re-arms delivery
add_agent_response_rearm(agent_name, response) ==
    /\ heap' = [heap EXCEPT ![agent_responses] = DictSet(@, agent_name, response)]
    /\ completed_agents' = completed_agents + 1
    /\ response_sent' = FALSE
    /\ UNCHANGED <<chain_name, total_agents, agent_responses>>

\* Variant: the counter counts distinct agent ids only
add_agent_response_distinct(agent_name, response) ==
    /\ heap' = [heap EXCEPT ![agent_responses] = DictSet(@, agent_name, response)]
    /\ completed_agents' =
          IF agent_name \in DOMAIN heap[agent_responses]
          THEN completed_agents ELSE completed_agents + 1
    /\ UNCHANGED <<chain_name, total_agents, agent_responses, response_sent>>

\* Variant: recordings made after delivery are stored but not counted
add_agent_response_capped(agent_name, response) ==
    /\ heap' = [heap EXCEPT ![agent_responses] = DictSet(@, agent_name, response)]
    /\ completed_agents' = IF response_sent THEN completed_agents ELSE completed_agents + 1
    /\ UNCHANGED <<chain_name, total_agents, agent_responses, response_sent>>

\* Variant: the wrong field is incremented
add_agent_response_grow(agent_name, response) ==
    /\ heap' = [heap EXCEPT ![agent_responses] = DictSet(@, agent_name, response)]
    /\ total_agents' = total_agents + 1
    /\ UNCHANGED <<chain_name, completed_agents, agent_responses, response_sent>>

\* add_agent_response(agent_name, response); returns None
add_agent_response(agent_name, response) ==
    /\ heap' = [heap EXCEPT ![agent_responses] = DictSet(@, agent_name, response)]
    /\ completed_agents' = completed_agents + 1
    /\ UNCHANGED <<chain_name, total_agents, agent_responses, response_sent>>

\* Variant: strict threshold (> for >=)
should_send_response_gt(rv) ==
    /\ rv = (~response_sent /\ completed_agents > total_agents)
    /\ UNCHANGED aggVars

\* Variant: exact threshold (== for >=)
should_send_response_eq(rv) ==
    /\ rv = (~response_sent /\ completed_agents = total_agents)
    /\ UNCHANGED aggVars

\* Variant: the delivered flag is not consulted
should_send_response_noflag(rv) ==
    /\ rv = (completed_agents >= total_agents)
    /\ UNCHANGED aggVars

\* Variant: a true answer marks the result as delivered
should_send_response_latch(rv) ==
    /\ rv = (~response_sent /\ completed_agents >= total_agents)
    /\ response_sent' = (response_sent \/ rv)
    /\ UNCHANGED <<chain_name, total_agents, agent_responses, completed_agents, heap>>

\* should_send_response(); rv is the value returned
should_send_response(rv) ==
    /\ rv = (~response_sent /\ completed_agents >= total_agents)
    /\ UNCHANGED aggVars

\* Variant: the read refuses (raises) unless the chain is ready
get_aggregated_response_gated(rv) ==
    /\ ~response_sent /\ completed_agents >= total_agents
    /\ response_sent' = TRUE
    /\ rv = [chain |-> chain_name, responses |-> agent_responses]
    /\ UNCHANGED <<chain_name, total_agents, agent_responses, completed_agents, heap>>

\* Variant: the read refuses (raises) once the result has been delivered
get_aggregated_response_once(rv) ==
    /\ ~response_sent
    /\ response_sent' = TRUE
    /\ rv = [chain |-> chain_name, responses |-> agent_responses]
    /\ UNCHANGED <<chain_name, total_agents, agent_responses, completed_agents, heap>>

\* Variant: the result is a snapshot taken at the first delivery
get_aggregated_response_frozen(rv) ==
    /\ response_sent' = TRUE
    /\ IF response_sent
       THEN /\ rv = [chain |-> chain_name, responses |-> Len(heap)]
            /\ UNCHANGED heap
       ELSE /\ rv = [chain |-> chain_name, responses |-> Len(heap) + 1]
            /\ heap' = Append(heap, heap[agent_responses])
    /\ UNCHANGED <<chain_name, total_agents, agent_responses, completed_agents>>

\* Variant: the flag is flipped instead of set
get_aggregated_response_toggle(rv) ==
    /\ response_sent' = ~response_sent
    /\ rv = [chain |-> chain_name, responses |-> agent_responses]
    /\ UNCHANGED <<chain_name, total_agents, agent_responses, completed_agents, heap>>

\* Variant: the result carries a copy of the mapping (dict(self.agent_responses))
get_aggregated_response_copy(rv) ==
    /\ response_sent' = TRUE
    /\ heap' = Append(heap, heap[agent_responses])
    /\ rv = [chain |-> chain_name, responses |-> Len(heap) + 1]
    /\ UNCHANGED <<chain_name, total_agents, agent_responses, completed_agents>>

\* get_aggregated_response(); rv is the dict returned, whose "responses" entry
\* is the reference held in self.agent_responses
get_aggregated_response(rv) ==
    /\ response_sent' = TRUE
    /\ rv = [chain |-> chain_name, responses |-> agent_responses]
    /\ UNCHANGED <<chain_name, total_agents, agent_responses, completed_agents, heap>>

\* Values a call of get_aggregated_response can return
ResultValues == [chain : ChainNames, responses : 1..(Len(heap) + 1)]

\* ------------------------------------------------------------- the notifier
\* class SSEEventType(Enum): member name |-> value
SSEEventType ==
    [AGENT_START |-> "agent_start",
     AGENT_PROGRESS |-> "agent_progress",
     AGENT_COMPLETE |-> "agent_complete",
     CHAIN_COMPLETE |-> "chain_complete",
     ERROR |-> "error"]

EventTypes == DOMAIN SSEEventType
Payloads == {[foo |-> "bar"], [foo |-> "baz"]}

\* Stream arguments: None, an object without a send attribute, _DummyStream
\* (send appends to self.sent), and a stream whose send raises.
Streams == {None, "plain", "dummy", "broken"}

\* hasattr(stream, "send")
hasattr_send(stream) == stream \in {"dummy", "broken"}

\* await stream.send(message): the sink's own behaviour
stream_send(stream, message) ==
    /\ attempts' = [attempts EXCEPT ![stream] = @ + 1]
    /\ IF stream = "dummy"
       THEN /\ sent' = [sent EXCEPT ![stream] = Append(@, message)]
            /\ outcome' = "returned"
       ELSE /\ outcome' = "raised"
            /\ UNCHANGED sent

\* Variant: the event field carries the member's name, not its value
send_sse_event_name(event_type, data, stream) ==
    IF stream # None /\ hasattr_send(stream)
    THEN stream_send(stream, [event |-> event_type, data |-> data])
    ELSE /\ outcome' = "returned"
         /\ UNCHANGED <<sent, attempts>>

\* Variant: only the None test is made, not hasattr(stream, "send")
send_sse_event_nohasattr(event_type, data, stream) ==
    IF stream # None
    THEN stream_send(stream, [event |-> SSEEventType[event_type], data |-> data])
    ELSE /\ outcome' = "returned"
         /\ UNCHANGED <<sent, attempts>>

\* Variant: a failing send is caught and the call returns normally
send_sse_event_swallow(event_type, data, stream) ==
    IF stream # None /\ hasattr_send(stream)
    THEN /\ attempts' = [attempts EXCEPT ![stream] = @ + 1]
         /\ sent' = IF stream = "dummy"
                    THEN [sent EXCEPT ![stream] =
                            Append(@, [event |-> SSEEventType[event_type], data |-> data])]
                    ELSE sent
         /\ outcome' = "returned"
    ELSE /\ outcome' = "returned"
         /\ UNCHANGED <<sent, attempts>>

\* Variant: the message is put in front of the ones the sink already holds
send_sse_event_front(event_type, data, stream) ==
    IF stream # None /\ hasattr_send(stream)
    THEN /\ attempts' = [attempts EXCEPT ![stream] = @ + 1]
         /\ sent' = IF stream = "dummy"
                    THEN [sent EXCEPT ![stream] =
                            <<[event |-> SSEEventType[event_type], data |-> data]>> \o @]
                    ELSE sent
         /\ outcome' = IF stream = "dummy" THEN "returned" ELSE "raised"
    ELSE /\ outcome' = "returned"
         /\ UNCHANGED <<sent, attempts>>

\* send_sse_event(event_type, data, stream)
send_sse_event(event_type, data, stream) ==
    IF stream # None /\ hasattr_send(stream)
    THEN stream_send(stream, [event |-> SSEEventType[event_type], data |-> data])
    ELSE /\ outcome' = "returned"
         /\ UNCHANGED <<sent, attempts>>

\* ------------------------------------------------------------------- Init
Init ==
    /\ \E name \in ChainNames, total \in TotalAgentsValues :
          /\ init(name, total)
          /\ constructed = [chain_name |-> name, total_agents |-> total]
    /\ recordLog = <<>>
    /\ consumeLog = <<>>
    /\ last = [op |-> "__init__", value |-> None]
    /\ lock = 0
    /\ pc = [c \in Callers |-> "idle"]
    /\ ready = [c \in Callers |-> FALSE]
    /\ result = [c \in Callers |-> None]
    /\ sent = [s \in Streams |-> <<>>]
    /\ attempts = [s \in Streams |-> 0]
    /\ notifyLog = <<>>
    /\ outcome = None
    /\ pending = 0
    /\ azHistory = <<>>
    /\ azCall = None
    /\ azResult = None
    /\ azOutcome = None

\* What one execution of get_aggregated_response looked like to caller c
ConsumeEntry(c, rv) ==
    [by |-> c, records |-> Len(recordLog), count |-> completed_agents,
     result |-> rv, view |-> heap'[rv.responses]]

\* ------------------------------------------- one caller, calls in any order
Record(a, r) ==
    /\ Len(recordLog) < MaxRecords
    /\ add_agent_response(a, r)
    /\ recordLog' = Append(recordLog, [agent |-> a, response |-> r])
    /\ last' = [op |-> "add_agent_response", value |-> None]
    /\ UNCHANGED <<constructed, consumeLog, callerVars, sinkVars, chainVars, azureVars>>

IsReady ==
    /\ \E rv \in BOOLEAN :
          /\ should_send_response(rv)
          /\ last' = [op |-> "should_send_response", value |-> rv]
    /\ UNCHANGED <<constructed, recordLog, consumeLog, callerVars, sinkVars, chainVars, azureVars>>

Consume ==
    /\ Len(consumeLog) < MaxConsumes
    /\ \E rv \in ResultValues :
          /\ get_aggregated_response(rv)
          /\ consumeLog' = Append(consumeLog, ConsumeEntry(0, rv))
          /\ last' = [op |-> "get_aggregated_response", value |-> rv]
    /\ UNCHANGED <<constructed, recordLog, callerVars, sinkVars, chainVars, azureVars>>

Next ==
    \/ \E a \in AgentIds, r \in Responses : Record(a, r)
    \/ IsReady
    \/ Consume

Spec == Init /\ [][Next]_vars

\* ------------------------------------------------------ notifier, one caller
Notify(e, d, s) ==
    /\ Len(notifyLog) < MaxNotify
    /\ send_sse_event(e, d, s)
    /\ notifyLog' = Append(notifyLog, [event_type |-> e, data |-> d, stream |-> s])
    /\ UNCHANGED <<aggVars, histVars, callerVars, chainVars, azureVars>>

NextNotify == \E e \in EventTypes, d \in Payloads, s \in Streams : Notify(e, d, s)

SpecNotify == Init /\ [][NextNotify]_vars

\* ------------------- callers that hold one lock across the check and the read
\* (acquire lock, check ready, consume, release lock); records interleave freely
RecordAny(a, r) ==
    /\ Len(recordLog) < MaxConcRecords
    /\ add_agent_response(a, r)
    /\ recordLog' = Append(recordLog, [agent |-> a, response |-> r])
    /\ UNCHANGED <<constructed, consumeLog, last, callerVars, sinkVars, chainVars, azureVars>>

Acquire(c) ==
    /\ pc[c] = "idle"
    /\ lock = 0
    /\ lock' = c
    /\ pc' = [pc EXCEPT ![c] = "check"]
    /\ UNCHANGED <<aggVars, histVars, ready, result, sinkVars, chainVars, azureVars>>

LockedCheck(c) ==
    /\ pc[c] = "check"
    /\ \E rv \in BOOLEAN :
          /\ should_send_response(rv)
          /\ ready' = [ready EXCEPT ![c] = rv]
          /\ pc' = [pc EXCEPT ![c] = IF rv THEN "consume" ELSE "release"]
    /\ UNCHANGED <<histVars, lock, result, sinkVars, chainVars, azureVars>>

LockedConsume(c) ==
    /\ pc[c] = "consume"
    /\ \E rv \in ResultValues :
          /\ get_aggregated_response(rv)
          /\ consumeLog' = Append(consumeLog, ConsumeEntry(c, rv))
          /\ result' = [result EXCEPT ![c] = rv]
    /\ pc' = [pc EXCEPT ![c] = "release"]
    /\ UNCHANGED <<constructed, recordLog, last, lock, ready, sinkVars, chainVars, azureVars>>

Release(c) ==
    /\ pc[c] = "release"
    /\ lock = c
    /\ lock' = 0
    /\ pc' = [pc EXCEPT ![c] = "idle"]
    /\ ready' = [ready EXCEPT ![c] = FALSE]
    /\ UNCHANGED <<aggVars, histVars, result, sinkVars, chainVars, azureVars>>

NextLocked ==
    \/ \E a \in AgentIds, r \in Responses : RecordAny(a, r)
    \/ \E c \in Callers : Acquire(c)
    \/ \E c \in Callers : LockedCheck(c)
    \/ \E c \in Callers : LockedConsume(c)
    \/ \E c \in Callers : Release(c)

SpecLocked == Init /\ [][NextLocked]_vars

\* ------------------------- callers that check and consume with no lock at all
RaceCheck(c) ==
    /\ pc[c] = "idle"
    /\ \E rv \in BOOLEAN :
          /\ should_send_response(rv)
          /\ ready' = [ready EXCEPT ![c] = rv]
          /\ pc' = [pc EXCEPT ![c] = IF rv THEN "consume" ELSE "idle"]
    /\ UNCHANGED <<histVars, lock, result, sinkVars, chainVars, azureVars>>

\* the read; afterwards the caller is free for another round
RaceConsume(c) ==
    /\ pc[c] = "consume"
    /\ \E rv \in ResultValues :
          /\ get_aggregated_response(rv)
          /\ consumeLog' = Append(consumeLog, ConsumeEntry(c, rv))
          /\ result' = [result EXCEPT ![c] = rv]
    /\ pc' = [pc EXCEPT ![c] = "idle"]
    /\ ready' = [ready EXCEPT ![c] = FALSE]
    /\ UNCHANGED <<constructed, recordLog, last, lock, sinkVars, chainVars, azureVars>>

NextRace ==
    \/ \E a \in AgentIds, r \in Responses : RecordAny(a, r)
    \/ \E c \in Callers : RaceCheck(c)
    \/ \E c \in Callers : RaceConsume(c)

SpecRace == Init /\ [][NextRace]_vars

\* ------------------------------------------- AzureOpenAIAugmentedLLM (provider)
MaxMessages == 2

Roles == {"user", "assistant"}
TextContent(t) == [type |-> "text", text |-> t]
ImageContent == [type |-> "image", text |-> None]
Contents ==
    {<<>>, <<TextContent("ping")>>, <<TextContent("foo"), TextContent("bar")>>, <<ImageContent>>}
\* PromptMessageMultipart(role, content)
Multiparts == [role : Roles, content : Contents]
MessageLists == UNION {[1..n -> Multiparts] : n \in 1..MaxMessages}

\* What client.chat.completions.create does for a call: it raises, or returns a
\* response without choices, or with a list of choices (a choice is given by
\* its message content, None when the content is None or absent)
ChoiceContents == {None, "", "pong"}
ChoiceLists ==
    {<<>>} \cup {<<[content |-> c]>> : c \in ChoiceContents}
           \cup {<<[content |-> c], [content |-> "late"]>> : c \in ChoiceContents}
Providers ==
    {[raises |-> TRUE, has_choices |-> FALSE, choices |-> <<>>],
     [raises |-> FALSE, has_choices |-> FALSE, choices |-> <<>>]}
    \cup {[raises |-> FALSE, has_choices |-> TRUE, choices |-> cs] : cs \in ChoiceLists}

\* "".join(parts) over the text parts of a message
RECURSIVE JoinText(_)
JoinText(parts) ==
    IF parts = <<>> THEN ""
    ELSE (IF Head(parts).type = "text" THEN Head(parts).text ELSE "") \o JoinText(Tail(parts))

\* _multipart_to_openai(msg)
multipart_to_openai(msg) == [role |-> msg.role, content |-> JoinText(msg.content)]

\* Prompt.assistant(text): an assistant message with one text part
Prompt_assistant(text) == [role |-> "assistant", content |-> <<TextContent(text)>>]

\* Variant: the first choice's content is passed on as it is (no `or ""`)
apply_prompt_provider_specific_raw(multipart_messages, provider) ==
    LET last_message == multipart_messages[Len(multipart_messages)]
        messages_to_add ==
            IF last_message.role = "user"
            THEN SubSeq(multipart_messages, 1, Len(multipart_messages) - 1)
            ELSE multipart_messages
        converted == [i \in 1..Len(messages_to_add) |-> multipart_to_openai(messages_to_add[i])]
        messages == converted \o <<multipart_to_openai(last_message)>>
    IN  /\ azHistory' = azHistory \o converted
        /\ IF last_message.role = "assistant"
           THEN /\ azResult' = last_message
                /\ azOutcome' = "returned"
                /\ azCall' = [messages |-> multipart_messages, provider |-> provider, sent |-> <<>>]
           ELSE /\ azCall' = [messages |-> multipart_messages, provider |-> provider, sent |-> messages]
                /\ IF provider.raises
                   THEN /\ azOutcome' = "ProviderKeyError"
                        /\ azResult' = None
                   ELSE /\ azOutcome' = "returned"
                        /\ azResult' =
                              IF ~provider.has_choices \/ provider.choices = <<>>
                              THEN Prompt_assistant("[empty]")
                              ELSE Prompt_assistant(provider.choices[1].content)

\* _apply_prompt_provider_specific(multipart_messages, request_params); provider
\* is what the completion endpoint does when _chat_completion calls it
apply_prompt_provider_specific(multipart_messages, provider) ==
    LET last_message == multipart_messages[Len(multipart_messages)]
        messages_to_add ==
            IF last_message.role = "user"
            THEN SubSeq(multipart_messages, 1, Len(multipart_messages) - 1)
            ELSE multipart_messages
        converted == [i \in 1..Len(messages_to_add) |-> multipart_to_openai(messages_to_add[i])]
        messages == converted \o <<multipart_to_openai(last_message)>>
    IN  /\ azHistory' = azHistory \o converted
        /\ IF last_message.role = "assistant"
           THEN /\ azResult' = last_message
                /\ azOutcome' = "returned"
                /\ azCall' = [messages |-> multipart_messages, provider |-> provider, sent |-> <<>>]
           ELSE /\ azCall' = [messages |-> multipart_messages, provider |-> provider, sent |-> messages]
                /\ IF provider.raises
                   THEN /\ azOutcome' = "ProviderKeyError"
                        /\ azResult' = None
                   ELSE /\ azOutcome' = "returned"
                        /\ azResult' =
                              IF ~provider.has_choices \/ provider.choices = <<>>
                              THEN Prompt_assistant("[empty]")
                              ELSE Prompt_assistant(
                                      IF provider.choices[1].content = None
                                      THEN "" ELSE provider.choices[1].content)

\* one call of the provider
AzureApply(mm, prov) ==
    /\ azOutcome = None
    /\ apply_prompt_provider_specific(mm, prov)
    /\ UNCHANGED <<aggVars, histVars, callerVars, sinkVars, chainVars>>

NextAzure == \E mm \in MessageLists, prov \in Providers : AzureApply(mm, prov)

SpecAzure == Init /\ [][NextAzure]_vars

\* ------------------- one chain run: N agents record, one orchestrator delivers
\* The agents of a chain of N: the first N agent ids
AgentOrder == <<"a1", "a2", "a3">>
Participants == {AgentOrder[i] : i \in 1..constructed.total_agents}

\* A chain of N >= 1 agents, each of which exists
InitChain ==
    /\ Init
    /\ total_agents \in 1..Len(AgentOrder)

\* agent a completes: its response is recorded (once per agent)
AgentRecords(a, r) ==
    /\ a \in Participants
    /\ \A i \in 1..Len(recordLog) : recordLog[i].agent # a
    /\ add_agent_response(a, r)
    /\ recordLog' = Append(recordLog, [agent |-> a, response |-> r])
    /\ pending' = pending + 1
    /\ UNCHANGED <<constructed, consumeLog, last, callerVars, sinkVars, azureVars>>

\* the orchestrator follows a recording by a readiness check
OrchCheck ==
    /\ pc[1] = "idle"
    /\ pending > 0
    /\ \E rv \in BOOLEAN :
          /\ should_send_response(rv)
          /\ ready' = [ready EXCEPT ![1] = rv]
          /\ pc' = [pc EXCEPT ![1] = IF rv THEN "consume" ELSE "idle"]
    /\ pending' = pending - 1
    /\ UNCHANGED <<histVars, lock, result, sinkVars, azureVars>>

\* ... and reads the result when the answer was true
OrchConsume ==
    /\ pc[1] = "consume"
    /\ \E rv \in ResultValues :
          /\ get_aggregated_response(rv)
          /\ consumeLog' = Append(consumeLog, ConsumeEntry(1, rv))
          /\ result' = [result EXCEPT ![1] = rv]
    /\ pc' = [pc EXCEPT ![1] = "idle"]
    /\ ready' = [ready EXCEPT ![1] = FALSE]
    /\ UNCHANGED <<constructed, recordLog, last, lock, sinkVars, chainVars, azureVars>>

NextChain ==
    \/ \E a \in AgentIds, r \in Responses : AgentRecords(a, r)
    \/ OrchCheck
    \/ OrchConsume

\* every agent eventually completes, and the orchestrator keeps running
SpecChain ==
    /\ InitChain
    /\ [][NextChain]_vars
    /\ \A a \in AgentIds : WF_vars(\E r \in Responses : AgentRecords(a, r))
    /\ WF_vars(OrchCheck)
    /\ WF_vars(OrchConsume)

\* ================================================================ properties
\* Observations over the history
RecordedIdsAt(n) == {recordLog[i].agent : i \in 1..n}
RecordedIds == RecordedIdsAt(Len(recordLog))
DistinctIds == Cardinality(RecordedIds) = Len(recordLog)
LastIndex(a, n) ==
    CHOOSE i \in 1..n : recordLog[i].agent = a /\ \A j \in (i + 1)..n : recordLog[j].agent # a
ExpectedDictAt(n) == [a \in RecordedIdsAt(n) |-> recordLog[LastIndex(a, n)].response]
ReadyReturned == last.op = "should_send_response"
ConsumeReturned == last.op = "get_aggregated_response"

\* C1: with total_agents = N >= 1, after k recordings with pairwise distinct
\* agent ids and no get_aggregated_response so far, should_send_response
\* returns false when k < N and true when k = N.
C1_ReadyExactlyAtNth ==
    (/\ ReadyReturned
     /\ constructed.total_agents >= 1
     /\ consumeLog = <<>>
     /\ DistinctIds
     /\ Len(recordLog) <= constructed.total_agents)
    => (last.value <=> (Len(recordLog) = constructed.total_agents))

\* C1 witness: N = 3, three distinct agents recorded, the call returned true
C1_Witness ==
    /\ ReadyReturned
    /\ last.value = TRUE
    /\ constructed.total_agents = 3
    /\ Len(recordLog) = 3
    /\ DistinctIds
    /\ consumeLog = <<>>

\* C2: should_send_response returns true iff the delivered flag is false and
\* the number of recorded completions is at least total_agents (the flag is
\* false exactly while nothing has been consumed; the completions are the
\* record calls made), so it stays true past the threshold until a consume.
C2_ReadyIff ==
    ReadyReturned =>
        /\ last.value <=> (~response_sent /\ completed_agents >= total_agents)
        /\ last.value <=>
              (consumeLog = <<>> /\ Len(recordLog) >= constructed.total_agents)

\* C2 witness: more recordings than total_agents, nothing consumed, still true
C2_Witness ==
    /\ ReadyReturned
    /\ last.value = TRUE
    /\ constructed.total_agents >= 1
    /\ Len(recordLog) > constructed.total_agents
    /\ consumeLog = <<>>

\* C3: when every caller holds one lock across should_send_response and
\* get_aggregated_response and reads only after a true answer, then under any
\* interleaving with recordings get_aggregated_response is executed at most
\* once, and at that moment the completion count is at least total_agents.
C3_LockedConsumeAtMostOnce ==
    /\ Len(consumeLog) <= 1
    /\ \A i \in 1..Len(consumeLog) : consumeLog[i].count >= constructed.total_agents

\* C3 witness: caller 1 has consumed a chain of N >= 1 agents; caller 2 then
\* took the lock, was answered false and is about to release
C3_Witness ==
    /\ constructed.total_agents >= 1
    /\ Len(consumeLog) = 1
    /\ consumeLog[1].by = 1
    /\ pc[1] = "idle"
    /\ pc[2] = "release"
    /\ ready[2] = FALSE

\* C4: once the delivered flag is true it stays true: it is true after every
\* get_aggregated_response, no later call resets it, and should_send_response
\* returns false ever after, also when the read came early and the remaining
\* agents record afterwards.
C4_DeliveredIsPermanent ==
    /\ [][response_sent => response_sent']_vars
    /\ [](consumeLog # <<>> => response_sent)
    /\ []((consumeLog # <<>> /\ ReadyReturned) => last.value = FALSE)

\* C4 witness: read early, the remaining agents recorded, then asked: false
C4_Witness ==
    /\ consumeLog # <<>>
    /\ consumeLog[1].count < constructed.total_agents
    /\ Len(recordLog) >= constructed.total_agents
    /\ ReadyReturned
    /\ last.value = FALSE
    /\ response_sent

\* C5: get_aggregated_response succeeds in every state (not ready, ready, or
\* already delivered) and leaves the delivered flag true.
C5_ConsumeUnconditional ==
    /\ Len(consumeLog) < MaxConsumes => ENABLED Consume
    /\ ConsumeReturned => response_sent

\* C5 witness: two reads, both made with fewer than total_agents completions
C5_Witness ==
    /\ ConsumeReturned
    /\ Len(consumeLog) = 2
    /\ consumeLog[1].count < constructed.total_agents
    /\ consumeLog[2].count < constructed.total_agents
    /\ response_sent

\* C6: every get_aggregated_response returns the chain name given at
\* construction and a mapping whose keys are exactly the agent ids recorded
\* before that call, each with the response (last) recorded for it; a second
\* call after further recordings returns the mapping including them.
C6_ConsumeReturnsRecorded ==
    \A i \in 1..Len(consumeLog) :
        /\ consumeLog[i].result.chain = constructed.chain_name
        /\ DOMAIN consumeLog[i].view = RecordedIdsAt(consumeLog[i].records)
        /\ consumeLog[i].view = ExpectedDictAt(consumeLog[i].records)

\* C6 witness: a first read after one recording and a second read after a
\* recording of another agent, whose mapping is larger
C6_Witness ==
    /\ Len(consumeLog) = 2
    /\ consumeLog[1].records = 1
    /\ consumeLog[2].records = 2
    /\ Cardinality(DOMAIN consumeLog[1].view) = 1
    /\ Cardinality(DOMAIN consumeLog[2].view) = 2

\* C7: with no lock across the check and the read, nothing in the aggregator
\* stops a caller that was answered true from reading: its
\* get_aggregated_response is executable whatever the others did in between,
\* and every read that happened followed a true answer while the flag was
\* still false at the check; so two callers can both be answered true and
\* both read (the witness).
C7_NoInternalLock ==
    \A c \in Callers : pc[c] = "consume" => (ready[c] /\ ENABLED RaceConsume(c))

\* C7 witness: two callers have read the same chain of N >= 1 agents, the
\* second one on the strength of an answer it got before the first one read
C7_Witness ==
    /\ Len(consumeLog) = 2
    /\ consumeLog[1].by # consumeLog[2].by
    /\ consumeLog[1].count >= constructed.total_agents
    /\ constructed.total_agents >= 1
    /\ result[consumeLog[1].by] = consumeLog[1].result
    /\ result[consumeLog[2].by] = consumeLog[2].result

\* C8 (as claimed): completed_agents equals the number of distinct keys ever
\* inserted into agent_responses, for every sequence of record calls,
\* repeated agent ids included.
C8_CounterEqualsDistinctKeys ==
    completed_agents = Cardinality(RecordedIds)

\* C8 (amended): completed_agents equals the number of add_agent_response
\* calls made; it equals the number of distinct keys ever inserted exactly
\* when no agent id has been recorded more than once, and exceeds it otherwise.
C8_CounterEqualsCalls ==
    /\ completed_agents = Len(recordLog)
    /\ DOMAIN Deref(agent_responses) = RecordedIds
    /\ completed_agents >= Cardinality(RecordedIds)
    /\ (completed_agents = Cardinality(RecordedIds)) <=> DistinctIds

\* C8 witness: three recordings over two agent ids
C8_Witness ==
    /\ Len(recordLog) = 3
    /\ Cardinality(RecordedIds) = 2
    /\ completed_agents = 3

\* Notifier observations
NotifiedTo(s) == SelectSeq(notifyLog, LAMBDA n : n.stream = s)
Token(e) ==
    CASE e = "AGENT_START" -> "agent_start"
      [] e = "AGENT_PROGRESS" -> "agent_progress"
      [] e = "AGENT_COMPLETE" -> "agent_complete"
      [] e = "CHAIN_COMPLETE" -> "chain_complete"
      [] e = "ERROR" -> "error"
Delivered == Len(sent[None]) + Len(sent["plain"]) + Len(sent["dummy"]) + Len(sent["broken"])
LastNotify == notifyLog[Len(notifyLog)]

\* C9: for each of the five event kinds and any payload, send_sse_event on a
\* sink that is present and has send hands the sink exactly one message per
\* call, whose event field is the kind's fixed token (pairwise distinct) and
\* whose data field is the payload unchanged.
C9_NotifyDeliversOne ==
    /\ EventTypes = {"AGENT_START", "AGENT_PROGRESS", "AGENT_COMPLETE", "CHAIN_COMPLETE", "ERROR"}
    /\ \A e1, e2 \in EventTypes : e1 # e2 => SSEEventType[e1] # SSEEventType[e2]
    /\ \A s \in {x \in Streams : x # None /\ hasattr_send(x)} :
          attempts[s] = Len(NotifiedTo(s))
    /\ Len(sent["dummy"]) = Len(NotifiedTo("dummy"))
    /\ \A i \in 1..Len(sent["dummy"]) :
          sent["dummy"][i] = [event |-> Token(NotifiedTo("dummy")[i].event_type),
                              data |-> NotifiedTo("dummy")[i].data]

\* C9 witness: two events of different kinds and payloads reached the sink
C9_Witness ==
    /\ Len(sent["dummy"]) = 2
    /\ sent["dummy"][1] = [event |-> "agent_start", data |-> [foo |-> "bar"]]
    /\ sent["dummy"][2] = [event |-> "error", data |-> [foo |-> "baz"]]
    /\ outcome = "returned"

\* C10: send_sse_event with stream None, or with a stream that has no send,
\* returns normally for every event kind and payload, and no message reaches
\* any sink.
C10_NotifySilentNoOp ==
    /\ \A s \in {x \in Streams : x = None \/ ~hasattr_send(x)} :
          sent[s] = <<>> /\ attempts[s] = 0
    /\ (notifyLog # <<>> /\ (LastNotify.stream = None \/ ~hasattr_send(LastNotify.stream)))
          => outcome = "returned"
    /\ Delivered = Len(NotifiedTo("dummy"))

\* C10 witness: one call with None and one with a stream without send
C10_Witness ==
    /\ Len(notifyLog) = 2
    /\ notifyLog[1].stream = None
    /\ notifyLog[2].stream = "plain"
    /\ outcome = "returned"
    /\ Delivered = 0

\* C11: when the sink's send fails, send_sse_event lets the failure reach the
\* caller and has made exactly one send attempt for that call: nothing is
\* retried, nothing is kept for later, and no error event is handed to any
\* sink on its behalf.
C11_SendFailurePropagates ==
    /\ (notifyLog # <<>> /\ LastNotify.stream = "broken") => outcome = "raised"
    /\ attempts["broken"] = Len(NotifiedTo("broken"))
    /\ sent["broken"] = <<>>
    /\ Delivered = Len(NotifiedTo("dummy"))
    /\ \A i \in 1..Len(sent["dummy"]) :
          sent["dummy"][i].event = Token(NotifiedTo("dummy")[i].event_type)

\* C11 witness: two calls on the failing sink; each made one attempt and the
\* caller saw the last one fail
C11_Witness ==
    /\ Len(notifyLog) = 2
    /\ LastNotify.stream = "broken"
    /\ outcome = "raised"
    /\ attempts["broken"] = 2

\* The message send_sse_event builds for a call
MessageOf(n) == [event |-> Token(n.event_type), data |-> n.data]

\* C12: for one sink, with each call awaited before the next is issued, the
\* sink holds the calls' messages in issue order: every step either leaves
\* what the sink holds alone or appends the message of the call just made,
\* so nothing is reordered, duplicated, dropped or overtaken.
C12_SinkKeepsIssueOrder ==
    /\ [](sent["dummy"] = [i \in 1..Len(NotifiedTo("dummy")) |-> MessageOf(NotifiedTo("dummy")[i])])
    /\ [][\/ sent'["dummy"] = sent["dummy"]
          \/ /\ LastNotify'.stream = "dummy"
             /\ sent'["dummy"] = Append(sent["dummy"], MessageOf(LastNotify'))]_vars

\* C12 witness: chain_complete issued after agent_complete is held after it
C12_Witness ==
    /\ Len(notifyLog) = 2
    /\ notifyLog[1].event_type = "AGENT_COMPLETE"
    /\ notifyLog[2].event_type = "CHAIN_COMPLETE"
    /\ Len(sent["dummy"]) = 2
    /\ sent["dummy"][1].event = "agent_complete"
    /\ sent["dummy"][2].event = "chain_complete"

\* Which call a step of the one-caller specification is
RecordStep == recordLog' # recordLog
ConsumeStep == consumeLog' # consumeLog
ReadyStep == last'.op = "should_send_response" /\ ~RecordStep /\ ~ConsumeStep

\* C13 (as claimed): an aggregator with total_agents <= 0 cannot be
\* constructed, so should_send_response is never true with zero recorded
\* completions.
C13_NeverReadyWithoutRecordings ==
    ~(ReadyReturned /\ last.value = TRUE /\ recordLog = <<>>)

\* C14: the completion counter starts at 0, never decreases, goes up by
\* exactly 1 on every add_agent_response and is left alone by every other
\* call, before and after delivery; add_agent_response always succeeds.
C14_CounterCountsRecords ==
    /\ (recordLog = <<>> => completed_agents = 0)
    /\ [][completed_agents' >= completed_agents]_vars
    /\ [][RecordStep => completed_agents' = completed_agents + 1]_vars
    /\ [][~RecordStep => completed_agents' = completed_agents]_vars
    /\ [](Len(recordLog) < MaxRecords =>
            \A a \in AgentIds, r \in Responses : ENABLED Record(a, r))

\* C14 witness: a recording made after delivery was counted
C14_Witness ==
    /\ last.op = "add_agent_response"
    /\ consumeLog # <<>>
    /\ consumeLog[1].count = 1
    /\ response_sent
    /\ completed_agents = 3

\* C15: should_send_response is a pure query: a call leaves chain name,
\* total_agents, the response mapping, the counter and the delivered flag as
\* they were, and a call made right after another returns the same value.
C15_ReadyIsPure ==
    [][ReadyStep =>
          /\ aggVars' = aggVars
          /\ Deref(agent_responses)' = Deref(agent_responses)
          /\ (ReadyReturned => last'.value = last.value)]_vars

\* C15 witness: asked in a ready state, answered true, and the state still ready
C15_Witness ==
    /\ ReadyReturned
    /\ last.value = TRUE
    /\ ~response_sent
    /\ completed_agents = 2
    /\ total_agents = 2
    /\ Cardinality(DOMAIN Deref(agent_responses)) = 2

\* C16: chain_name and total_agents keep the values given at construction
\* through every sequence of calls.
C16_NameAndTotalFixed ==
    /\ chain_name = constructed.chain_name
    /\ total_agents = constructed.total_agents

\* C16 witness: three recordings, two reads and a readiness query later
C16_Witness ==
    /\ Len(recordLog) = 3
    /\ Len(consumeLog) = 2
    /\ ReadyReturned
    /\ chain_name = "other"
    /\ total_agents = 2

\* The provider call observed
AzLastRole == azCall.messages[Len(azCall.messages)].role
AzNoChoices == ~azCall.provider.has_choices \/ azCall.provider.choices = <<>>
AzExpectedText ==
    IF AzNoChoices THEN "[empty]"
    ELSE IF azCall.provider.choices[1].content = None THEN ""
    ELSE azCall.provider.choices[1].content

\* C17: when the last message is a user turn and the completion call
\* returns, _apply_prompt_provider_specific returns an assistant-role message
\* whose text is "[empty]" when there are no choices, "" when the first
\* choice's content is None, and the first choice's content otherwise; the
\* first two cases raise nothing.
C17_AzureAssistantReply ==
    (azOutcome # None /\ AzLastRole = "user" /\ ~azCall.provider.raises) =>
        /\ azOutcome = "returned"
        /\ azResult.role = "assistant"
        /\ azResult.content = <<TextContent(AzExpectedText)>>

\* C17 witness: a two-message prompt ending in a user turn, the first choice's
\* content None, a second choice present: the reply is the empty string
C17_Witness ==
    /\ azOutcome = "returned"
    /\ Len(azCall.messages) = 2
    /\ AzLastRole = "user"
    /\ Len(azCall.provider.choices) = 2
    /\ azCall.provider.choices[1].content = None
    /\ azResult = Prompt_assistant("")

\* The state of the aggregator as section 4.1 names it
AggState ==
    IF response_sent THEN "delivered"
    ELSE IF completed_agents >= total_agents THEN "ready-not-delivered"
    ELSE "accumulating"

\* C18: the aggregator is in one of three states, and its state changes only
\* from accumulating to ready-not-delivered, by the recording that brings the
\* count to total_agents, and from accumulating or ready-not-delivered to
\* delivered, by get_aggregated_response; a read in the delivered state stays
\* there, ready-not-delivered never falls back to accumulating, and delivered
\* is never left.
C18_ThreeStates ==
    /\ [][AggState' # AggState =>
            \/ /\ AggState = "accumulating"
               /\ AggState' = "ready-not-delivered"
               /\ RecordStep
               /\ completed_agents' = total_agents
            \/ /\ AggState \in {"accumulating", "ready-not-delivered"}
               /\ AggState' = "delivered"
               /\ ConsumeStep]_vars
    /\ [][ConsumeStep => AggState' = "delivered"]_vars
    /\ [][(RecordStep /\ AggState = "accumulating" /\ completed_agents' >= total_agents)
            => AggState' = "ready-not-delivered"]_vars

\* C18 witness: a chain of two agents went accumulating, ready-not-delivered,
\* delivered, and was read and recorded to again in the delivered state
C18_Witness ==
    /\ constructed.total_agents = 2
    /\ Len(consumeLog) = 2
    /\ consumeLog[1].records = 2
    /\ consumeLog[1].count = 2
    /\ Len(recordLog) = 3
    /\ AggState = "delivered"

\* C19: when each of the N agents of a chain eventually records and the
\* orchestrator follows every recording by a readiness check and reads when
\* the answer is true, the chain ends up delivered for good, with
\* get_aggregated_response executed exactly once and all N agent ids in the
\* result.
C19_ChainIsDeliveredOnce ==
    /\ [](Len(consumeLog) <= 1)
    /\ <>[](/\ response_sent
            /\ Len(consumeLog) = 1
            /\ DOMAIN consumeLog[1].view = Participants
            /\ Cardinality(DOMAIN consumeLog[1].view) = constructed.total_agents)

\* C19 witness: a chain of three agents delivered, nothing left to check
C19_Witness ==
    /\ constructed.total_agents = 3
    /\ response_sent
    /\ Len(consumeLog) = 1
    /\ DOMAIN consumeLog[1].view = {"a1", "a2", "a3"}
    /\ pending = 0
    /\ pc[1] = "idle"

\* C20: add_agent_response, should_send_response and get_aggregated_response
\* contain no await, so under cooperative scheduling each runs as one step;
\* then for every interleaving of concurrent tasks the completion counter
\* equals the number of record calls completed, also as every read saw it
\* (no lost update).
C20_NoLostUpdate ==
    /\ completed_agents = Len(recordLog)
    /\ \A i \in 1..Len(consumeLog) : consumeLog[i].count = consumeLog[i].records

\* C20 witness: two tasks were both answered true after one recording, a
\* second recording came in between, and the first read saw both counted
C20_Witness ==
    /\ constructed.total_agents = 1
    /\ Len(recordLog) = 2
    /\ recordLog[1].agent = recordLog[2].agent
    /\ completed_agents = 2
    /\ Len(consumeLog) = 1
    /\ consumeLog[1].count = 2
    /\ \E c \in Callers : pc[c] = "consume"

\* The agent ids the mapping holds now
MappingKeys == DOMAIN Deref(agent_responses)

\* C21: the mapping never holds more keys than the completion counter says,
\* and holds fewer exactly when some agent id has been recorded more than
\* once; so should_send_response can be true while the mapping holds fewer
\* than total_agents agents.
C21_KeysAtMostCounter ==
    /\ Cardinality(MappingKeys) <= completed_agents
    /\ (Cardinality(MappingKeys) < completed_agents) <=> ~DistinctIds

\* C21 witness: one agent recorded twice in a chain of two, and the answer to
\* should_send_response is true with a single agent in the mapping
C21_Witness ==
    /\ constructed.total_agents = 2
    /\ ReadyReturned
    /\ last.value = TRUE
    /\ Cardinality(MappingKeys) = 1
    /\ completed_agents = 2

\* C22: a recording stores its response under its agent id, over whatever
\* that id held before (last write wins), adds no other key and leaves the
\* responses of all other ids as they were.
C22_LastWriteWins ==
    [][RecordStep =>
          LET e == recordLog'[Len(recordLog')] IN
          /\ MappingKeys' = MappingKeys \cup {e.agent}
          /\ Deref(agent_responses)'[e.agent] = e.response
          /\ \A a \in MappingKeys \ {e.agent} :
                Deref(agent_responses)'[a] = Deref(agent_responses)[a]]_vars

\* C22 witness: a1 recorded as "one", a2 recorded, a1 recorded again as "two":
\* the mapping holds "two" for a1 and a2's response untouched
C22_Witness ==
    /\ Len(recordLog) = 3
    /\ recordLog[1] = [agent |-> "a1", response |-> "one"]
    /\ recordLog[2] = [agent |-> "a2", response |-> "one"]
    /\ recordLog[3] = [agent |-> "a1", response |-> "two"]
    /\ Deref(agent_responses) = [a \in {"a1", "a2"} |-> IF a = "a1" THEN "two" ELSE "one"]

\* C23: the "responses" entry of a returned result is the aggregator's own
\* mapping, not a copy: every result ever returned shows the mapping as it is
\* now, recordings made after the return included.
C23_ResultIsLive ==
    \A i \in 1..Len(consumeLog) :
        /\ consumeLog[i].result.responses = agent_responses
        /\ Deref(consumeLog[i].result.responses) = ExpectedDictAt(Len(recordLog))

\* C23 witness: a result returned with one agent in it now shows two
C23_Witness ==
    /\ Len(consumeLog) = 1
    /\ consumeLog[1].view = [a \in {"a1"} |-> "one"]
    /\ Len(recordLog) = 2
    /\ DOMAIN Deref(consumeLog[1].result.responses) = {"a1", "a2"}

====
